---- MODULE Spec2Model ----
(***************************************************************************)
(* Model of the stream subsystem of rsbrain:                               *)
(*   src/src/neural_machine/streams/mod.rs       (dependency analysis,     *)
(*                                                stream builder)          *)
(*   src/src/neural_machine/streams/scheduler.rs (Scheduler, ExecutionUnit)*)
(*   src/src/neural_machine/streams/tests.rs     (serial reference run)    *)
(*                                                                         *)
(* Indices are those of the source: instruction i and stream s count from  *)
(* 0.  A Vec is a TLA+ sequence, so element i of a Vec v is At(v, i).      *)
(* An instruction is the pair <<inputs, outputs>> of make_simple_          *)
(* instructions: two sequences of operand ids.                             *)
(***************************************************************************)
EXTENDS Integers, Sequences, FiniteSets, TLC

\* ------------------------------------------------------------------------
\* Bounds of the model
\* ------------------------------------------------------------------------
\* operand ids are 1..NumOperands
NumOperands == 2
\* longest input list and longest output list of a generated instruction
MaxOperandList == 1
\* longest instruction list handed to the compile-only specification
MaxCompileInstr == 4
\* longest instruction list run by the queue pipeline
MaxInstr == 3
\* longest instruction list run by the serial reference run
MaxSerialInstr == 5

\* the longest program of the runs with one execution unit that look at
\* the order of the streams
MaxOneUnitInstr == 5

\* the number of tensors of a tensor graph
MaxTensors == 4

\* the largest number of inputs of a tensor
MaxTensorInputs == 2

\* the longest program given to the dependency analyzer alone
MaxAnalyzeInstr == 3

\* the longest operand list of an instruction given to the analyzer alone
MaxAnalyzeOperandList == 2

\* the longest instruction list given to the fusion pass
MaxFusionInstr == 7

\* the longest program run by the bounded policy
MaxBoundedInstr == 4

\* the largest cap given to the bounded policy
MaxConcurrentStreams == 3
\* number of execution units that poll the dispatch queue
NumUnits == 2

\* ------------------------------------------------------------------------
\* Program constants
\* ------------------------------------------------------------------------
\* usize::MAX, the marker "no stream assigned yet": a value no stream id takes
no_stream == -1
\* usize::MAX, the stop token of the dispatch queue
STOP == -1

\* ------------------------------------------------------------------------
\* Vec helpers
\* ------------------------------------------------------------------------
At(v, i) == v[i + 1]

Contains(v, x) == \E k \in 1..Len(v) : v[k] = x

Elems(v) == {v[k] : k \in 1..Len(v)}

RECURSIVE SetToSortedSeq(_)
SetToSortedSeq(S) ==
    IF S = {} THEN <<>>
    ELSE LET m == CHOOSE x \in S : \A y \in S : x <= y
         IN <<m>> \o SetToSortedSeq(S \ {m})

\* v.sort(); v.dedup();
SortDedup(v) == SetToSortedSeq(Elems(v))

inputs(instruction) == instruction[1]

outputs(instruction) == instruction[2]

\* ------------------------------------------------------------------------
\* verify_machine_inputs
\* ------------------------------------------------------------------------
\* a variant of the inner loop that looks at instruction 0 only
FirstWriterFrom_onlyFirst(instrs, i, machine_input) ==
    IF Len(instrs) > 0 /\ Contains(outputs(At(instrs, 0)), machine_input)
    THEN 0 ELSE no_stream

\* inner loop: the first instruction at or after i that writes machine_input,
\* or no_stream when the loop runs to its end
RECURSIVE FirstWriterFrom(_, _, _)
FirstWriterFrom(instrs, i, machine_input) ==
    IF i >= Len(instrs) THEN no_stream
    ELSE IF Contains(outputs(At(instrs, i)), machine_input) THEN i
    ELSE FirstWriterFrom(instrs, i + 1, machine_input)

\* outer loop: TRUE when the function returns, FALSE when it panics
RECURSIVE VerifyFrom(_, _, _)
VerifyFrom(m_inputs, k, instrs) ==
    IF k >= Len(m_inputs) THEN TRUE
    ELSE IF FirstWriterFrom(instrs, 0, At(m_inputs, k)) # no_stream THEN FALSE
    ELSE VerifyFrom(m_inputs, k + 1, instrs)

verify_machine_inputs(m_inputs, instrs) == VerifyFrom(m_inputs, 0, instrs)

\* ------------------------------------------------------------------------
\* get_instruction_dependencies
\* ------------------------------------------------------------------------
\* `for j in (0..i).rev()` with its `break`: the closest prior instruction,
\* starting at j, whose inputs (field 1) or outputs (field 2) contain the
\* operand, as the list of what the loop pushes (one index or nothing)
\* a variant that takes the first instruction that has the operand, not the
\* nearest
ScanBack_first(instrs, j, operand, field) ==
    LET hits == {k \in 0..j : Contains(At(instrs, k)[field], operand)}
    IN IF hits = {} THEN <<>> ELSE <<CHOOSE k \in hits : \A h \in hits : k <= h>>

RECURSIVE ScanBack(_, _, _, _)
ScanBack(instrs, j, operand, field) ==
    IF j < 0 THEN <<>>
    ELSE IF Contains(At(instrs, j)[field], operand) THEN <<j>>
    ELSE ScanBack(instrs, j - 1, operand, field)

\* a variant whose scan starts at instruction i itself
RECURSIVE ScanOperands_self(_, _, _, _)
ScanOperands_self(instrs, i, operands, field) ==
    IF operands = <<>> THEN <<>>
    ELSE ScanBack(instrs, i, Head(operands), field)
         \o ScanOperands_self(instrs, i, Tail(operands), field)

\* `for operand in operands.iter()` around the scan
RECURSIVE ScanOperands(_, _, _, _)
ScanOperands(instrs, i, operands, field) ==
    IF operands = <<>> THEN <<>>
    ELSE ScanBack(instrs, i - 1, Head(operands), field)
         \o ScanOperands(instrs, i, Tail(operands), field)

\* a variant that records no write-before-write dependency
Dependencies_noWriteBeforeWrite(instrs, i) ==
    [write_before_read  |-> ScanOperands(instrs, i, inputs(At(instrs, i)), 2),
     write_before_write |-> <<>>,
     read_before_write  |-> ScanOperands(instrs, i, outputs(At(instrs, i)), 1)]

\* a variant that records no read-before-write dependency
Dependencies_noReadBeforeWrite(instrs, i) ==
    [write_before_read  |-> ScanOperands(instrs, i, inputs(At(instrs, i)), 2),
     write_before_write |-> ScanOperands(instrs, i, outputs(At(instrs, i)), 2),
     read_before_write  |-> <<>>]

\* the Dependencies record of instruction i
Dependencies(instrs, i) ==
    [write_before_read  |-> ScanOperands(instrs, i, inputs(At(instrs, i)), 2),
     write_before_write |-> ScanOperands(instrs, i, outputs(At(instrs, i)), 2),
     read_before_write  |-> ScanOperands(instrs, i, outputs(At(instrs, i)), 1)]

get_instruction_dependencies(instrs) ==
    [k \in 1..Len(instrs) |-> Dependencies(instrs, k - 1)]

\* ------------------------------------------------------------------------
\* assign_instructions_to_streams
\* ------------------------------------------------------------------------
\* concat of the three lists, sort, dedup (lines 193-200)
DependencyUnion(d) ==
    SortDedup(d.write_before_read \o d.read_before_write \o d.write_before_write)

\* a variant that joins the stream of the first dependency whenever there is one
AssignOne_joinFirst(i_deps, instruction_streams, next_stream) ==
    IF Len(i_deps) >= 1
    THEN <<At(instruction_streams, i_deps[1]), next_stream>>
    ELSE <<next_stream, next_stream + 1>>

\* a variant that opens a stream for every instruction
AssignOne_alwaysNew(i_deps, instruction_streams, next_stream) ==
    <<next_stream, next_stream + 1>>

\* the branch of lines 201-213 for one instruction: <<its stream, next_stream>>.
\* A dependency whose stream is still no_stream is the panic of line 205; the
\* marker is then carried into the result.
AssignOne(i_deps, instruction_streams, next_stream) ==
    IF Len(i_deps) = 1
    THEN <<At(instruction_streams, i_deps[1]), next_stream>>
    ELSE <<next_stream, next_stream + 1>>

RECURSIVE AssignLoop(_, _, _, _)
AssignLoop(instruction_dependencies, i_inst, instruction_streams, next_stream) ==
    IF i_inst >= Len(instruction_dependencies) THEN instruction_streams
    ELSE LET i_deps == DependencyUnion(At(instruction_dependencies, i_inst))
             r == AssignOne(i_deps, instruction_streams, next_stream)
         IN AssignLoop(instruction_dependencies, i_inst + 1,
                       [instruction_streams EXCEPT ![i_inst + 1] = r[1]], r[2])

assign_instructions_to_streams(instruction_dependencies) ==
    AssignLoop(instruction_dependencies, 0,
               [k \in 1..Len(instruction_dependencies) |-> no_stream], 0)

\* ------------------------------------------------------------------------
\* make_streams
\* ------------------------------------------------------------------------
\* lines 69-73
StreamCount(instruction_streams) ==
    IF instruction_streams = <<>> THEN 0
    ELSE (CHOOSE m \in Elems(instruction_streams) :
              \A x \in Elems(instruction_streams) : x <= m) + 1

\* a variant that also pushes the instructions of the streams below s
RECURSIVE StreamInstructionsFrom_orLower(_, _, _)
StreamInstructionsFrom_orLower(instruction_streams, i_inst, s) ==
    IF i_inst >= Len(instruction_streams) THEN <<>>
    ELSE (IF At(instruction_streams, i_inst) <= s THEN <<i_inst>> ELSE <<>>)
         \o StreamInstructionsFrom_orLower(instruction_streams, i_inst + 1, s)

\* lines 74-77: the instructions pushed on stream s, in the order of the loop
RECURSIVE StreamInstructionsFrom(_, _, _)
StreamInstructionsFrom(instruction_streams, i_inst, s) ==
    IF i_inst >= Len(instruction_streams) THEN <<>>
    ELSE (IF At(instruction_streams, i_inst) = s THEN <<i_inst>> ELSE <<>>)
         \o StreamInstructionsFrom(instruction_streams, i_inst + 1, s)

\* a variant that takes the dependencies of the last instruction of the stream
StreamDependencies_lastInstruction(stream_instructions, instruction_dependencies, instruction_streams) ==
    LET last_instruction == At(stream_instructions, Len(stream_instructions) - 1)
        d == At(instruction_dependencies, last_instruction)
        dependency_instructions ==
            SortDedup(d.read_before_write \o d.write_before_read \o d.write_before_write)
    IN [k \in 1..Len(dependency_instructions) |->
            At(instruction_streams, dependency_instructions[k])]

\* a variant that keeps the stream of the first dependency instruction only
StreamDependencies_firstOnly(stream_instructions, instruction_dependencies, instruction_streams) ==
    LET first_instruction == At(stream_instructions, 0)
        d == At(instruction_dependencies, first_instruction)
        dependency_instructions ==
            SortDedup(d.read_before_write \o d.write_before_read \o d.write_before_write)
    IN [k \in 1..(IF dependency_instructions = <<>> THEN 0 ELSE 1) |->
            At(instruction_streams, dependency_instructions[k])]

\* lines 92-109: the dependencies of the stream whose instruction list is given
StreamDependencies(stream_instructions, instruction_dependencies, instruction_streams) ==
    LET first_instruction == At(stream_instructions, 0)
        d == At(instruction_dependencies, first_instruction)
        dependency_instructions ==
            SortDedup(d.read_before_write \o d.write_before_read \o d.write_before_write)
    IN [k \in 1..Len(dependency_instructions) |->
            At(instruction_streams, dependency_instructions[k])]

make_streams(instrs) ==
    LET instruction_dependencies == get_instruction_dependencies(instrs)
        instruction_streams == assign_instructions_to_streams(instruction_dependencies)
        stream_count == StreamCount(instruction_streams)
    IN [k \in 1..stream_count |->
           LET stream_instructions ==
                   StreamInstructionsFrom(instruction_streams, 0, k - 1)
           IN [id |-> k - 1,
               state |-> "Unreached",
               dependencies |-> StreamDependencies(stream_instructions,
                                    instruction_dependencies, instruction_streams),
               instructions |-> stream_instructions]]

\* ------------------------------------------------------------------------
\* Transactions
\* ------------------------------------------------------------------------
\* enum Access, in the order its derived Ord compares
Read == 0

Write == 1

\* a Transaction is <<instruction, operand, access>>, the order of the fields
\* of the struct, which is the order its derived Ord compares
get_instruction_transactions(instruction, ins, outs) ==
    [k \in 1..Len(ins) |-> <<instruction, ins[k], Read>>]
        \o [k \in 1..Len(outs) |-> <<instruction, outs[k], Write>>]

\* the transactions of the instructions of `trace`, in that order
RECURSIVE TransactionsOf(_, _)
TransactionsOf(instrs, trace) ==
    IF trace = <<>> THEN <<>>
    ELSE get_instruction_transactions(Head(trace), inputs(At(instrs, Head(trace))),
                                      outputs(At(instrs, Head(trace))))
         \o TransactionsOf(instrs, Tail(trace))

get_all_instruction_transactions(instrs) ==
    TransactionsOf(instrs, [k \in 1..Len(instrs) |-> k - 1])

\* group_by_operand, for one key of the map
group_by_operand(transactions, operand) ==
    SelectSeq(transactions, LAMBDA t : t[2] = operand)

\* lines 513-520: the pair pushed for transaction i of one operand, if any
RECURSIVE PriorPair(_, _, _, _)
PriorPair(transactions, i, j, prior_access) ==
    IF j < 0 THEN <<>>
    ELSE IF At(transactions, j)[3] = prior_access
         THEN << <<At(transactions, i), At(transactions, j)>> >>
         ELSE PriorPair(transactions, i, j - 1, prior_access)

\* lines 509-522: the pairs of one operand, in the order they are pushed
RECURSIVE PairsFrom(_, _, _, _)
PairsFrom(transactions, i, access, prior_access) ==
    IF i >= Len(transactions) THEN <<>>
    ELSE (IF At(transactions, i)[3] = access
          THEN PriorPair(transactions, i, i - 1, prior_access) ELSE <<>>)
         \o PairsFrom(transactions, i + 1, access, prior_access)

\* the derived Ord of a pair of transactions
PairLess(a, b) ==
    LET x == a[1] \o a[2]
        y == b[1] \o b[2]
    IN \E k \in 1..6 : x[k] < y[k] /\ \A m \in 1..(k - 1) : x[m] = y[m]

\* pairs.sort()
RECURSIVE SortPairs(_)
SortPairs(pairs) ==
    IF pairs = <<>> THEN <<>>
    ELSE LET least == CHOOSE k \in 1..Len(pairs) :
                          \A m \in 1..Len(pairs) : ~PairLess(pairs[m], pairs[k])
         IN <<pairs[least]>>
            \o SortPairs([k \in 1..(Len(pairs) - 1) |->
                              IF k < least THEN pairs[k] ELSE pairs[k + 1]])

\* the map from each operand that has a pair to its sorted pairs
get_operand_transaction_pairs(access, prior_access, transactions) ==
    LET operands == {transactions[k][2] : k \in 1..Len(transactions)}
        pairs(o) == PairsFrom(group_by_operand(transactions, o), 0, access, prior_access)
    IN [o \in {x \in operands : pairs(x) # <<>>} |-> SortPairs(pairs(o))]

\* ------------------------------------------------------------------------
\* Inputs
\* ------------------------------------------------------------------------
Operands == 1..NumOperands

OperandLists(n) == UNION {[1..k -> Operands] : k \in 0..n}

InstructionKinds == OperandLists(MaxOperandList) \X OperandLists(MaxOperandList)

Programs(n) == UNION {[1..k -> InstructionKinds] : k \in 0..n}

\* the three-instruction scenario of the specification (section 8):
\* I0 writes 5; I1 reads 5, writes 6; I2 reads 5, writes 7
ScenarioProgram == << <<<<>>, <<5>>>>, <<<<5>>, <<6>>>>, <<<<5>>, <<7>>>> >>

\* ------------------------------------------------------------------------
\* State
\* ------------------------------------------------------------------------
VARIABLES
    instructions,          \* the flat instruction list
    machine_inputs,        \* the operands declared as machine inputs
    streams,               \* Vec<Stream>, empty until make_streams has run
    phase,                 \* "verify", "make", "ready", "panicked"
    dispatch_queue,        \* VecDeque shared by the scheduler and the units
    completion_queue,      \* VecDeque shared by the units and the scheduler
    pending_dependencies,  \* Scheduler.pending_dependencies
    completed_streams,     \* Scheduler.completed_streams
    scheduler,             \* where the scheduler is: [pc, i, stream]
    units,                 \* where each execution unit is: [pc, stream, next]
    handler_lock,          \* holder of the handler mutex, 0 when free
    executed,              \* the instructions executed so far, in order
    dispatched,            \* history: every value pushed on the dispatch queue
    retired,               \* history: every stream popped from the completion queue
    unreached_streams,     \* serial reference run: streams not yet spawned
    joined_streams,        \* serial reference run: streams spawned and joined
    max_concurrent_streams, \* bounded policy: the cap given to execute_streams
    active_streams,        \* bounded policy: BTreeSet of the spawned streams
    bounded,               \* bounded policy: where execute_streams is: [pc, i, j]
    result,                \* bounded policy: what execute_streams returned
    failed,                \* history: the instructions whose operator returned Err
    first_call,            \* history: what the first call of execute_streams executed
    machine_instructions,  \* fusion pass: the instruction list built from the tape
    new_instructions,      \* fusion pass: the list returned by the last pass
    passes,                \* fusion pass: [count, input] of the passes applied
    tensors,               \* the tensor graph: [inputs, forward] of each tensor
    stack,                 \* get_tape: the LinkedList used as a stack
    tape,                  \* get_tape: the tape
    tape_pc                \* get_tape: "loop" or "returned"

programVars == <<instructions, machine_inputs, streams, phase>>

queueVars == <<dispatch_queue, completion_queue, dispatched, retired>>

schedulerVars == <<pending_dependencies, completed_streams, scheduler>>

unitVars == <<units, handler_lock>>

serialVars == <<unreached_streams, joined_streams>>

boundedVars == <<max_concurrent_streams, active_streams, bounded, result, failed,
                 first_call>>

tapeVars == <<tensors, stack, tape, tape_pc>>

frontVars == <<machine_instructions, new_instructions, passes, tapeVars>>

vars == <<programVars, queueVars, schedulerVars, unitVars, executed, serialVars,
          boundedVars, frontVars>>

Units == 1..NumUnits

StreamIds == 0..(Len(streams) - 1)

\* ------------------------------------------------------------------------
\* Scheduler::new and ExecutionUnit::new
\* ------------------------------------------------------------------------
\* line 152
PendingDependencies(ss) == [k \in 1..Len(ss) |-> Len(ss[k].dependencies)]

\* lines 153-158: the dependents pushed for stream `dependency` by the
\* streams from `dependent` on, one entry per occurrence in a dependency list
RECURSIVE DependentsFrom(_, _, _)
DependentsFrom(ss, dependent, dependency) ==
    IF dependent >= Len(ss) THEN <<>>
    ELSE LET hits == SelectSeq(At(ss, dependent).dependencies,
                               LAMBDA d : d = dependency)
         IN [k \in 1..Len(hits) |-> dependent]
            \o DependentsFrom(ss, dependent + 1, dependency)

\* Scheduler.dependents, fixed by Scheduler::new
Dependents(ss) == [k \in 1..Len(ss) |-> DependentsFrom(ss, 0, k - 1)]

SchedulerNew(ss) ==
    /\ pending_dependencies = PendingDependencies(ss)
    /\ completed_streams = 0
    /\ scheduler = [pc |-> "spawn", i |-> 0, stream |-> no_stream]

UnitsNew ==
    /\ units = [u \in Units |-> [pc |-> "fetch", stream |-> no_stream, next |-> 0]]
    /\ handler_lock = 0

\* NeuralMachine::try_new is not being looked at
TapeIdle ==
    /\ tensors = <<>>
    /\ stack = <<>>
    /\ tape = <<>>
    /\ tape_pc = "returned"

FusionIdle ==
    /\ machine_instructions = <<>>
    /\ new_instructions = <<>>
    /\ passes = [count |-> 0, input |-> <<>>]

FrontIdle == FusionIdle /\ TapeIdle

\* mod.rs execute_streams has not been called
PolicyIdle ==
    /\ max_concurrent_streams = 0
    /\ active_streams = {}
    /\ bounded = [pc |-> "idle", i |-> 0, j |-> 0]
    /\ result = [kind |-> "none", error |-> no_stream]
    /\ failed = <<>>
    /\ first_call = [returned |-> FALSE, executed |-> <<>>]

BoundedIdle == FrontIdle /\ PolicyIdle

\* tests.rs lines 109-114 (spawned_streams is written and never read)
SerialNew(ss) ==
    /\ unreached_streams = 0..(Len(ss) - 1)
    /\ joined_streams = {}

QueuesNew ==
    /\ dispatch_queue = <<>>
    /\ completion_queue = <<>>
    /\ dispatched = <<>>
    /\ retired = <<>>

\* ------------------------------------------------------------------------
\* Compilation: verify_machine_inputs, then make_streams
\* ------------------------------------------------------------------------
InitCompile ==
    /\ instructions \in Programs(MaxCompileInstr) \cup {ScenarioProgram}
    /\ machine_inputs \in OperandLists(MaxOperandList)
    /\ streams = <<>>
    /\ phase = "verify"
    /\ QueuesNew
    /\ SchedulerNew(<<>>)
    /\ UnitsNew
    /\ executed = <<>>
    /\ SerialNew(<<>>)
    /\ BoundedIdle

VerifyMachineInputs ==
    /\ phase = "verify"
    /\ phase' = IF verify_machine_inputs(machine_inputs, instructions)
                THEN "make" ELSE "panicked"
    /\ UNCHANGED <<instructions, machine_inputs, streams>>
    /\ UNCHANGED <<queueVars, schedulerVars, unitVars, executed, serialVars, boundedVars, frontVars>>

MakeStreams ==
    /\ phase = "make"
    /\ streams' = make_streams(instructions)
    /\ phase' = "ready"
    /\ UNCHANGED <<instructions, machine_inputs>>
    /\ UNCHANGED <<queueVars, schedulerVars, unitVars, executed, serialVars, boundedVars, frontVars>>

NextCompile == VerifyMachineInputs \/ MakeStreams

\* ------------------------------------------------------------------------
\* make_streams alone, on instructions with longer operand lists
\* ------------------------------------------------------------------------
AnalyzeInstructionKinds ==
    OperandLists(MaxAnalyzeOperandList) \X OperandLists(MaxAnalyzeOperandList)

InitAnalyze ==
    /\ instructions \in UNION {[1..k -> AnalyzeInstructionKinds] : k \in 0..MaxAnalyzeInstr}
    /\ machine_inputs = <<>>
    /\ streams = <<>>
    /\ phase = "make"
    /\ QueuesNew
    /\ SchedulerNew(<<>>)
    /\ UnitsNew
    /\ executed = <<>>
    /\ SerialNew(<<>>)
    /\ BoundedIdle

NextAnalyze == MakeStreams

SpecAnalyze == InitAnalyze /\ [][NextAnalyze]_vars

SpecCompile == InitCompile /\ [][NextCompile]_vars

\* ------------------------------------------------------------------------
\* The queue pipeline: Scheduler
\* ------------------------------------------------------------------------
\* a variant that dispatches a stream whatever its pending dependencies
MaybeDispatch_always(pending, stream) == <<stream>>

\* a variant that dispatches a stream that still has one pending dependency
MaybeDispatch_onePending(pending, stream) ==
    IF At(pending, stream) <= 1 THEN <<stream>> ELSE <<>>

\* maybe_dispatch: what it pushes on the dispatch queue
MaybeDispatch(pending, stream) ==
    IF At(pending, stream) = 0 THEN <<stream>> ELSE <<>>

\* Scheduler::spawn, lines 170-172: one maybe_dispatch per stream
SchedulerSpawnDispatch ==
    /\ scheduler.pc = "spawn"
    /\ scheduler.i < Len(pending_dependencies)
    /\ LET pushed == MaybeDispatch(pending_dependencies, scheduler.i)
       IN /\ dispatch_queue' = dispatch_queue \o pushed
          /\ dispatched' = dispatched \o pushed
    /\ scheduler' = [scheduler EXCEPT !.i = @ + 1]
    /\ UNCHANGED <<programVars, completion_queue, retired, pending_dependencies,
                   completed_streams, unitVars, executed, serialVars, boundedVars, frontVars>>

\* Scheduler::spawn, lines 174-178: the thread that loops on step
SchedulerSpawnThread ==
    /\ scheduler.pc = "spawn"
    /\ scheduler.i >= Len(pending_dependencies)
    /\ scheduler' = [scheduler EXCEPT !.pc = "pop"]
    /\ UNCHANGED <<programVars, queueVars, pending_dependencies, completed_streams,
                   unitVars, executed, serialVars, boundedVars, frontVars>>

\* Scheduler::step, lines 189-191: pop the completion queue
SchedulerPop ==
    /\ scheduler.pc = "pop"
    /\ IF completion_queue # <<>>
       THEN /\ completion_queue' = Tail(completion_queue)
            /\ retired' = Append(retired, Head(completion_queue))
            /\ completed_streams' = completed_streams + 1
            /\ scheduler' = [pc |-> "notify", i |-> 0, stream |-> Head(completion_queue)]
       ELSE /\ scheduler' = [scheduler EXCEPT !.pc = "check"]
            /\ UNCHANGED <<completion_queue, retired, completed_streams>>
    /\ UNCHANGED <<programVars, dispatch_queue, dispatched, pending_dependencies,
                   unitVars, executed, serialVars, boundedVars, frontVars>>

\* Scheduler::step, lines 192-196: one turn of the loop over the dependents
SchedulerNotify ==
    /\ scheduler.pc = "notify"
    /\ LET dependents == At(Dependents(streams), scheduler.stream)
       IN IF scheduler.i < Len(dependents)
          THEN LET dependent == At(dependents, scheduler.i)
                   pending == [pending_dependencies EXCEPT ![dependent + 1] = @ - 1]
                   pushed == MaybeDispatch(pending, dependent)
               IN /\ pending_dependencies' = pending
                  /\ dispatch_queue' = dispatch_queue \o pushed
                  /\ dispatched' = dispatched \o pushed
                  /\ scheduler' = [scheduler EXCEPT !.i = @ + 1]
          ELSE /\ scheduler' = [scheduler EXCEPT !.pc = "check"]
               /\ UNCHANGED <<pending_dependencies, dispatch_queue, dispatched>>
    /\ UNCHANGED <<programVars, completion_queue, retired, completed_streams,
                   unitVars, executed, serialVars, boundedVars, frontVars>>

\* a variant that stops one completion early
AllCompleted_oneEarly(completed, dependents) == completed >= Len(dependents) - 1

\* a variant that is never satisfied
AllCompleted_never(completed, dependents) == completed = Len(dependents) + 1

\* line 199: the test that ends the scheduler loop
AllCompleted(completed, dependents) == completed = Len(dependents)

\* Scheduler::step, lines 199-204: stop when every stream has completed
SchedulerCheck ==
    /\ scheduler.pc = "check"
    /\ IF AllCompleted(completed_streams, Dependents(streams))
       THEN /\ dispatch_queue' = Append(dispatch_queue, STOP)
            /\ dispatched' = Append(dispatched, STOP)
            /\ scheduler' = [scheduler EXCEPT !.pc = "halted"]
       ELSE /\ scheduler' = [scheduler EXCEPT !.pc = "pop"]
            /\ UNCHANGED <<dispatch_queue, dispatched>>
    /\ UNCHANGED <<programVars, completion_queue, retired, pending_dependencies,
                   completed_streams, unitVars, executed, serialVars, boundedVars, frontVars>>

\* ------------------------------------------------------------------------
\* The queue pipeline: ExecutionUnit
\* ------------------------------------------------------------------------
\* ExecutionUnit::step, lines 244-248: fetch.  A pop of the empty queue
\* returns true and changes nothing.
UnitFetch(u) ==
    /\ units[u].pc = "fetch"
    /\ dispatch_queue # <<>>
    /\ dispatch_queue' = Tail(dispatch_queue)
    /\ units' = [units EXCEPT ![u] =
                    IF Head(dispatch_queue) = STOP
                    THEN [@ EXCEPT !.pc = "halted"]
                    ELSE [pc |-> "lock", stream |-> Head(dispatch_queue), next |-> 0]]
    /\ UNCHANGED <<programVars, completion_queue, dispatched, retired, schedulerVars,
                   handler_lock, executed, serialVars, boundedVars, frontVars>>

\* a variant that enters on_execute without waiting for the handler mutex
UnitLock_noWait(u) ==
    /\ units[u].pc = "lock"
    /\ handler_lock' = u
    /\ units' = [units EXCEPT ![u].pc = "execute"]
    /\ UNCHANGED <<programVars, queueVars, schedulerVars, executed, serialVars, boundedVars, frontVars>>

\* lines 250-252: take the handler mutex
UnitLock(u) ==
    /\ units[u].pc = "lock"
    /\ handler_lock = 0
    /\ handler_lock' = u
    /\ units' = [units EXCEPT ![u].pc = "execute"]
    /\ UNCHANGED <<programVars, queueVars, schedulerVars, executed, serialVars, boundedVars, frontVars>>

\* on_execute: the next instruction of the stream
UnitExecute(u) ==
    /\ units[u].pc = "execute"
    /\ units[u].next < Len(At(streams, units[u].stream).instructions)
    /\ executed' = Append(executed,
                          At(At(streams, units[u].stream).instructions, units[u].next))
    /\ units' = [units EXCEPT ![u].next = @ + 1]
    /\ UNCHANGED <<programVars, queueVars, schedulerVars, handler_lock, serialVars, boundedVars, frontVars>>

\* a variant in which on_execute returns before the last instruction
UnitUnlock_early(u) ==
    /\ units[u].pc = "execute"
    /\ units[u].next >= Len(At(streams, units[u].stream).instructions) - 1
    /\ handler_lock' = 0
    /\ units' = [units EXCEPT ![u].pc = "writeback"]
    /\ UNCHANGED <<programVars, queueVars, schedulerVars, executed, serialVars, boundedVars, frontVars>>

\* on_execute returns Ok and the mutex guard is dropped
UnitUnlock(u) ==
    /\ units[u].pc = "execute"
    /\ units[u].next >= Len(At(streams, units[u].stream).instructions)
    /\ handler_lock' = 0
    /\ units' = [units EXCEPT ![u].pc = "writeback"]
    /\ UNCHANGED <<programVars, queueVars, schedulerVars, executed, serialVars, boundedVars, frontVars>>

\* line 256: writeback
UnitWriteback(u) ==
    /\ units[u].pc = "writeback"
    /\ completion_queue' = Append(completion_queue, units[u].stream)
    /\ units' = [units EXCEPT ![u].pc = "fetch"]
    /\ UNCHANGED <<programVars, dispatch_queue, dispatched, retired, schedulerVars,
                   handler_lock, executed, serialVars, boundedVars, frontVars>>

\* ------------------------------------------------------------------------
\* The queue pipeline: scheduler.rs execute_streams
\* ------------------------------------------------------------------------
Init ==
    /\ instructions \in Programs(MaxInstr)
    /\ machine_inputs = <<>>
    /\ streams = make_streams(instructions)
    /\ phase = "ready"
    /\ QueuesNew
    /\ SchedulerNew(streams)
    /\ UnitsNew
    /\ executed = <<>>
    /\ SerialNew(<<>>)
    /\ BoundedIdle

Next ==
    \/ SchedulerSpawnDispatch
    \/ SchedulerSpawnThread
    \/ SchedulerPop
    \/ SchedulerNotify
    \/ SchedulerCheck
    \/ \E u \in Units : UnitFetch(u)
    \/ \E u \in Units : UnitLock(u)
    \/ \E u \in Units : UnitExecute(u)
    \/ \E u \in Units : UnitUnlock(u)
    \/ \E u \in Units : UnitWriteback(u)

Spec == Init /\ [][Next]_vars

\* the steps of the scheduler: Scheduler::spawn and its thread
SchedulerStep ==
    \/ SchedulerSpawnDispatch
    \/ SchedulerSpawnThread
    \/ SchedulerPop
    \/ SchedulerNotify
    \/ SchedulerCheck

\* the steps of the thread of execution unit u
UnitStep(u) ==
    \/ UnitFetch(u)
    \/ UnitLock(u)
    \/ UnitExecute(u)
    \/ UnitUnlock(u)
    \/ UnitWriteback(u)

\* ------------------------------------------------------------------------
\* scheduler.rs execute_streams as written: one Scheduler, one ExecutionUnit,
\* each on a thread of its own that the operating system keeps running
\* ------------------------------------------------------------------------
NextOneUnit ==
    \/ SchedulerStep
    \/ UnitStep(1)

SpecOneUnit ==
    /\ Init
    /\ [][NextOneUnit]_vars
    /\ WF_vars(SchedulerStep)
    /\ WF_vars(UnitStep(1))

\* ------------------------------------------------------------------------
\* The same harness on longer programs, those whose streams are not all
\* ready in the order of their ids: a stream without dependency comes after
\* a stream that has to wait for its dependencies
\* ------------------------------------------------------------------------
LateReadyStream(ss) ==
    \E k, m \in 1..Len(ss) :
        k < m /\ ss[k].dependencies # <<>> /\ ss[m].dependencies = <<>>

InitOneUnitLong ==
    /\ instructions \in {p \in Programs(MaxOneUnitInstr) : LateReadyStream(make_streams(p))}
    /\ machine_inputs = <<>>
    /\ streams = make_streams(instructions)
    /\ phase = "ready"
    /\ QueuesNew
    /\ SchedulerNew(streams)
    /\ UnitsNew
    /\ executed = <<>>
    /\ SerialNew(<<>>)
    /\ BoundedIdle

SpecOneUnitLong == InitOneUnitLong /\ [][NextOneUnit]_vars

\* ------------------------------------------------------------------------
\* The queue pipeline with a handler whose on_execute can return an error
\* (StreamExecutor::on_execute, lines 73-83)
\* ------------------------------------------------------------------------
\* the state of a mutex whose holder panicked
poisoned == -1

\* lines 250-254: on_execute returns Err at the next instruction of the
\* stream, unwrap panics, the thread ends with the mutex guard alive
UnitExecuteFails(u) ==
    /\ units[u].pc = "execute"
    /\ units[u].next < Len(At(streams, units[u].stream).instructions)
    /\ units' = [units EXCEPT ![u].pc = "panicked"]
    /\ handler_lock' = poisoned
    /\ UNCHANGED <<programVars, queueVars, schedulerVars, executed, serialVars, boundedVars, frontVars>>

\* lines 250-252: lock() of a poisoned mutex returns Err, unwrap panics
UnitLockPoisoned(u) ==
    /\ units[u].pc = "lock"
    /\ handler_lock = poisoned
    /\ units' = [units EXCEPT ![u].pc = "panicked"]
    /\ UNCHANGED <<programVars, queueVars, schedulerVars, handler_lock, executed,
                   serialVars, boundedVars, frontVars>>

NextFault ==
    \/ SchedulerStep
    \/ \E u \in Units : UnitStep(u)
    \/ \E u \in Units : UnitExecuteFails(u)
    \/ \E u \in Units : UnitLockPoisoned(u)

SpecFault == Init /\ [][NextFault]_vars

\* ------------------------------------------------------------------------
\* The serial reference run: tests.rs spawn_and_join_streams
\* ------------------------------------------------------------------------
\* lines 119-126
CanSpawn(ss, unreached_stream, joined) ==
    \A k \in 1..Len(At(ss, unreached_stream).dependencies) :
        At(ss, unreached_stream).dependencies[k] \in joined

\* lines 116-131: the streams among which the loop finds the one to spawn;
\* the BTreeSet iterates in increasing order and the loop breaks at the first
StreamToSpawn(ss, unreached, joined) ==
    LET able == {s \in unreached : CanSpawn(ss, s, joined)}
    IN IF able = {} THEN no_stream
       ELSE CHOOSE s \in able : \A t \in able : s <= t

InitSerial ==
    /\ instructions \in Programs(MaxSerialInstr)
    /\ machine_inputs = <<>>
    /\ streams = make_streams(instructions)
    /\ phase = "ready"
    /\ QueuesNew
    /\ SchedulerNew(<<>>)
    /\ UnitsNew
    /\ executed = <<>>
    /\ SerialNew(streams)
    /\ BoundedIdle

\* one turn of the while loop of lines 115-148
SerialSpawnAndJoin ==
    /\ Cardinality(joined_streams) # Len(streams)
    /\ LET stream_to_spawn == StreamToSpawn(streams, unreached_streams, joined_streams)
       IN IF stream_to_spawn # no_stream
          THEN /\ unreached_streams' = unreached_streams \ {stream_to_spawn}
               /\ executed' = executed \o At(streams, stream_to_spawn).instructions
               /\ joined_streams' = joined_streams \cup {stream_to_spawn}
          ELSE UNCHANGED <<unreached_streams, executed, joined_streams>>
    /\ UNCHANGED <<programVars, queueVars, schedulerVars, unitVars, boundedVars, frontVars>>

NextSerial == SerialSpawnAndJoin

SpecSerial == InitSerial /\ [][NextSerial]_vars

\* ------------------------------------------------------------------------
\* The bounded policy: mod.rs execute_streams
\* ------------------------------------------------------------------------
\* ExecutionUnit::execute of a stream: the instructions run in their
\* recorded order; fail is the position of the instruction whose operator
\* returns an error, or the length of the list when none does.  The result
\* is the list of instructions executed and what execute returns.
ExecutionUnitExecute(stream_instructions, fail) ==
    IF fail < Len(stream_instructions)
    THEN [executed |-> SubSeq(stream_instructions, 1, fail),
          result |-> [kind |-> "Err", error |-> At(stream_instructions, fail)]]
    ELSE [executed |-> stream_instructions,
          result |-> [kind |-> "Ok", error |-> no_stream]]

\* a variant that goes on after an error
Propagates_never(r) == FALSE

\* the question mark operator of lines 331 and 379: an Err is returned at once
Propagates(r) == r.kind = "Err"

\* a variant that never finds the cap reached
CapReached_never(active, max) == FALSE

\* line 372
CapReached(active, max) == Cardinality(active) = max

\* a variant that takes the newest active stream
Oldest_max(active) == CHOOSE s \in active : \A t \in active : t <= s

\* line 373: the minimum of the BTreeSet (called on a non-empty set)
Oldest(active) == CHOOSE s \in active : \A t \in active : s <= t

\* a variant that puts the joined stream back to Unreached
JoinStream_unreached(ss, stream) == [ss EXCEPT ![stream + 1].state = "Unreached"]

\* join_stream, lines 277-307: the new stream list
JoinStream(ss, stream) == [ss EXCEPT ![stream + 1].state = "Joined"]

\* spawn_stream, lines 316-324: the new stream list
SpawnStream(ss, stream) == [ss EXCEPT ![stream + 1].state = "Spawned"]

InitBounded ==
    /\ instructions \in Programs(MaxBoundedInstr)
    /\ machine_inputs = <<>>
    /\ streams = make_streams(instructions)
    /\ phase = "ready"
    /\ QueuesNew
    /\ SchedulerNew(<<>>)
    /\ UnitsNew
    /\ executed = <<>>
    /\ SerialNew(<<>>)
    /\ FrontIdle
    /\ max_concurrent_streams \in 0..MaxConcurrentStreams
    /\ active_streams = {}
    /\ bounded = [pc |-> "for", i |-> 0, j |-> 0]
    /\ result = [kind |-> "none", error |-> no_stream]
    /\ failed = <<>>
    /\ first_call = [returned |-> FALSE, executed |-> <<>>]

\* lines 351-352 and 380-382: the head of the first loop
BoundedFor ==
    /\ bounded.pc = "for"
    /\ bounded' =
          IF bounded.i >= Len(streams) THEN [pc |-> "join", i |-> 0, j |-> 0]
          ELSE IF At(streams, bounded.i).state = "Unreached"
               THEN [bounded EXCEPT !.pc = "dependencies", !.j = 0]
               ELSE [bounded EXCEPT !.pc = "panicked"]
    /\ UNCHANGED <<programVars, queueVars, schedulerVars, unitVars, executed,
                   serialVars, max_concurrent_streams, active_streams, result, failed,
                   first_call, frontVars>>

\* lines 353-370: one dependency of stream i
BoundedJoinDependency ==
    /\ bounded.pc = "dependencies"
    /\ LET dependencies == At(streams, bounded.i).dependencies
       IN IF bounded.j >= Len(dependencies)
          THEN /\ bounded' = [bounded EXCEPT !.pc = "cap"]
               /\ UNCHANGED <<streams, active_streams>>
          ELSE LET dependency == At(dependencies, bounded.j)
               IN IF At(streams, dependency).state = "Spawned"
                  THEN /\ streams' = JoinStream(streams, dependency)
                       /\ active_streams' = active_streams \ {dependency}
                       /\ bounded' = [bounded EXCEPT !.j = @ + 1]
                  ELSE IF At(streams, dependency).state = "Joined"
                  THEN /\ bounded' = [bounded EXCEPT !.j = @ + 1]
                       /\ UNCHANGED <<streams, active_streams>>
                  ELSE /\ bounded' = [bounded EXCEPT !.pc = "panicked"]
                       /\ UNCHANGED <<streams, active_streams>>
    /\ UNCHANGED <<instructions, machine_inputs, phase, queueVars, schedulerVars,
                   unitVars, executed, serialVars, max_concurrent_streams, result,
                   failed, first_call, frontVars>>

\* lines 372-377: join the oldest active stream when the cap is reached
BoundedMakeRoom ==
    /\ bounded.pc = "cap"
    /\ IF CapReached(active_streams, max_concurrent_streams) /\ active_streams # {}
       THEN /\ streams' = JoinStream(streams, Oldest(active_streams))
            /\ active_streams' = active_streams \ {Oldest(active_streams)}
       ELSE UNCHANGED <<streams, active_streams>>
    /\ bounded' = [bounded EXCEPT !.pc = "spawn"]
    /\ UNCHANGED <<instructions, machine_inputs, phase, queueVars, schedulerVars,
                   unitVars, executed, serialVars, max_concurrent_streams, result,
                   failed, first_call, frontVars>>

\* line 379 and spawn_stream, lines 309-338
BoundedSpawn ==
    /\ bounded.pc = "spawn"
    /\ streams' = SpawnStream(streams, bounded.i)
    /\ active_streams' = active_streams \cup {bounded.i}
    /\ \E fail \in 0..Len(At(streams, bounded.i).instructions) :
          LET run == ExecutionUnitExecute(At(streams, bounded.i).instructions, fail)
          IN /\ executed' = executed \o run.executed
             /\ failed' = IF run.result.kind = "Err"
                          THEN Append(failed, run.result.error) ELSE failed
             /\ IF Propagates(run.result)
                THEN /\ result' = run.result
                     /\ bounded' = [bounded EXCEPT !.pc = "returned"]
                ELSE /\ result' = result
                     /\ bounded' = [bounded EXCEPT !.pc = "for", !.i = @ + 1]
    /\ UNCHANGED <<instructions, machine_inputs, phase, queueVars, schedulerVars,
                   unitVars, serialVars, max_concurrent_streams, first_call, frontVars>>

\* lines 384-388: join what is still spawned
BoundedJoin ==
    /\ bounded.pc = "join"
    /\ bounded.i < Len(streams)
    /\ IF At(streams, bounded.i).state = "Spawned"
       THEN /\ streams' = JoinStream(streams, bounded.i)
            /\ active_streams' = active_streams \ {bounded.i}
       ELSE UNCHANGED <<streams, active_streams>>
    /\ bounded' = [bounded EXCEPT !.i = @ + 1]
    /\ UNCHANGED <<instructions, machine_inputs, phase, queueVars, schedulerVars,
                   unitVars, executed, serialVars, max_concurrent_streams, result,
                   failed, first_call, frontVars>>

\* lines 390-391
BoundedReturn ==
    /\ bounded.pc = "join"
    /\ bounded.i >= Len(streams)
    /\ bounded' = [bounded EXCEPT !.pc = IF active_streams = {} THEN "returned"
                                         ELSE "panicked"]
    /\ result' = IF active_streams = {} THEN [kind |-> "Ok", error |-> no_stream]
                 ELSE result
    /\ UNCHANGED <<programVars, queueVars, schedulerVars, unitVars, executed,
                   serialVars, max_concurrent_streams, active_streams, failed,
                   first_call, frontVars>>

RECURSIVE BoundedExecution(_)
\* the execution of the bounded policy when no operator fails: the first
\* loop (lines 351-383) spawns the streams in increasing id order and
\* spawn_stream runs the whole stream before it returns (line 331)
BoundedExecution(ss) ==
    IF ss = <<>> THEN <<>> ELSE ss[1].instructions \o BoundedExecution(Tail(ss))

NextBounded ==
    \/ BoundedFor
    \/ BoundedJoinDependency
    \/ BoundedMakeRoom
    \/ BoundedSpawn
    \/ BoundedJoin
    \/ BoundedReturn

SpecBounded == InitBounded /\ [][NextBounded]_vars

\* ------------------------------------------------------------------------
\* The bounded policy called a second time on the same streams
\* ------------------------------------------------------------------------
\* a variant that leaves the states as they are
reset_streams_nothing(ss) == ss

\* reset_streams, lines 394-398
reset_streams(ss) == [k \in 1..Len(ss) |-> [ss[k] EXCEPT !.state = "Unreached"]]

\* after the first call has returned Ok: reset_streams(streams), then the
\* head of the second call of execute_streams (line 350: a new BTreeSet),
\* with any cap
BoundedResetAndCallAgain ==
    /\ bounded.pc = "returned"
    /\ result.kind = "Ok"
    /\ ~first_call.returned
    /\ first_call' = [returned |-> TRUE, executed |-> executed]
    /\ streams' = reset_streams(streams)
    /\ executed' = <<>>
    /\ active_streams' = {}
    /\ max_concurrent_streams' \in 0..MaxConcurrentStreams
    /\ bounded' = [pc |-> "for", i |-> 0, j |-> 0]
    /\ result' = [kind |-> "none", error |-> no_stream]
    /\ UNCHANGED <<instructions, machine_inputs, phase, queueVars, schedulerVars,
                   unitVars, serialVars, failed, frontVars>>

NextRerun ==
    \/ NextBounded
    \/ BoundedResetAndCallAgain

SpecRerun == InitBounded /\ [][NextRerun]_vars

\* after the first call has returned, Ok or Err: the head of a second call
\* of execute_streams on the same streams, with any cap, and no
\* reset_streams between the two
BoundedCallAgainWithoutReset ==
    /\ bounded.pc = "returned"
    /\ ~first_call.returned
    /\ first_call' = [returned |-> TRUE, executed |-> executed]
    /\ executed' = <<>>
    /\ active_streams' = {}
    /\ max_concurrent_streams' \in 0..MaxConcurrentStreams
    /\ bounded' = [pc |-> "for", i |-> 0, j |-> 0]
    /\ result' = [kind |-> "none", error |-> no_stream]
    /\ UNCHANGED <<programVars, queueVars, schedulerVars, unitVars, serialVars,
                   failed, frontVars>>

NextNoReset ==
    \/ NextBounded
    \/ BoundedCallAgainWithoutReset

SpecNoReset == InitBounded /\ [][NextNoReset]_vars

\* ------------------------------------------------------------------------
\* The tape: tensor.rs and tensor_with_grad.rs get_tape
\* ------------------------------------------------------------------------
\* the sequences of at most n elements of S
SeqsUpTo(S, n) == UNION {[1..k -> S] : k \in 0..n}

\* the acyclic tensor graphs of MaxTensors tensors: the inputs of tensor t
\* (Tensor::new, lines 15-23) are tensors made before it, a tensor that has
\* inputs is the output of an operator and has a forward instruction, a
\* tensor without input may have one or not
TensorGraphs ==
    {g \in [1..MaxTensors -> [inputs : SeqsUpTo(1..MaxTensors, MaxTensorInputs),
                              forward : BOOLEAN]] :
        \A t \in 1..MaxTensors :
            /\ \A k \in 1..Len(g[t].inputs) : g[t].inputs[k] < t
            /\ g[t].inputs # <<>> => g[t].forward}

\* into_iter().rev().collect(), line 73
RECURSIVE Reverse(_)
Reverse(v) == IF v = <<>> THEN <<>> ELSE Append(Reverse(Tail(v)), Head(v))

\* lines 56-58: get_tape of the last tensor, the loss
InitTape ==
    /\ instructions = <<>>
    /\ machine_inputs = <<>>
    /\ streams = <<>>
    /\ phase = "ready"
    /\ QueuesNew
    /\ SchedulerNew(<<>>)
    /\ UnitsNew
    /\ executed = <<>>
    /\ SerialNew(<<>>)
    /\ PolicyIdle
    /\ FusionIdle
    /\ tensors \in TensorGraphs
    /\ stack = <<MaxTensors>>
    /\ tape = <<>>
    /\ tape_pc = "loop"

\* one turn of the while loop of lines 59-72
GetTapePop ==
    /\ tape_pc = "loop"
    /\ stack # <<>>
    /\ LET element == stack[Len(stack)]
           rest == SubSeq(stack, 1, Len(stack) - 1)
       IN IF ~tensors[element].forward
          THEN /\ stack' = rest
               /\ tape' = tape
          ELSE /\ stack' = rest \o tensors[element].inputs
               /\ tape' = Append(tape, element)
    /\ UNCHANGED <<programVars, queueVars, schedulerVars, unitVars, executed,
                   serialVars, boundedVars, machine_instructions, new_instructions,
                   passes, tensors, tape_pc>>

\* line 73: the stack is empty, the tape is returned in reverse
GetTapeReturn ==
    /\ tape_pc = "loop"
    /\ stack = <<>>
    /\ tape' = Reverse(tape)
    /\ tape_pc' = "returned"
    /\ UNCHANGED <<programVars, queueVars, schedulerVars, unitVars, executed,
                   serialVars, boundedVars, machine_instructions, new_instructions,
                   passes, tensors, stack>>

NextTape ==
    \/ GetTapePop
    \/ GetTapeReturn

SpecTape == InitTape /\ [][NextTape]_vars

\* ------------------------------------------------------------------------
\* The fusion pass: neural_machine.rs optimize_softmax_and_cross_entropy_loss
\* ------------------------------------------------------------------------
\* the operator names the pass looks at, the one it writes, and another one
OperatorNames ==
    {"CrossEntropyLossBackward", "Clip", "SoftmaxBackward", "IdentityBackward", "Gemm"}

\* the instruction at position k of the list built from the tape: its
\* operands are its own, so that an instruction is known by them; it has two
\* inputs, as line 253 reads inputs()[1]
MachineInstruction(name, k) ==
    [operator |-> name, inputs |-> <<3 * k, 3 * k + 1>>, outputs |-> <<3 * k + 2>>]

\* the lists of up to n operator names
NameLists(n) == UNION {[1..len -> OperatorNames] : len \in 0..n}

\* the instruction list with these operator names
MachineProgram(names) ==
    [k \in 1..Len(names) |-> MachineInstruction(names[k], k - 1)]

\* a variant that does not look at a window that ends the list
WindowFits_notLast(i, len) == i + 5 < len

\* line 243
WindowFits(i, len) == i + 4 < len

\* lines 244-248
PatternAt(list, i) ==
    /\ At(list, i + 0).operator = "CrossEntropyLossBackward"
    /\ At(list, i + 1).operator = "Clip"
    /\ At(list, i + 2).operator = "Clip"
    /\ At(list, i + 3).operator = "SoftmaxBackward"
    /\ At(list, i + 4).operator = "Clip"

\* a variant that keeps the operator and both inputs, the other way round
IdentityInstruction_sameOperator(softmax_backward) ==
    [operator |-> softmax_backward.operator,
     inputs |-> <<At(softmax_backward.inputs, 1), At(softmax_backward.inputs, 0)>>,
     outputs |-> softmax_backward.outputs]

\* lines 253-258: the instruction pushed in place of the SoftmaxBackward
IdentityInstruction(softmax_backward) ==
    [operator |-> "IdentityBackward",
     inputs |-> <<At(softmax_backward.inputs, 1)>>,
     outputs |-> softmax_backward.outputs]

RECURSIVE OptimizeFrom(_, _)
\* the while loop of lines 242-269, from index i
OptimizeFrom(list, i) ==
    IF i >= Len(list) THEN <<>>
    ELSE IF WindowFits(i, Len(list)) /\ PatternAt(list, i)
         THEN <<At(list, i + 0), At(list, i + 1), At(list, i + 2),
                IdentityInstruction(At(list, i + 3)), At(list, i + 4)>>
              \o OptimizeFrom(list, i + 5)
         ELSE <<At(list, i)>> \o OptimizeFrom(list, i + 1)

optimize_softmax_and_cross_entropy_loss(list) == OptimizeFrom(list, 0)

InitFusion ==
    /\ instructions = <<>>
    /\ machine_inputs = <<>>
    /\ streams = <<>>
    /\ phase = "ready"
    /\ QueuesNew
    /\ SchedulerNew(<<>>)
    /\ UnitsNew
    /\ executed = <<>>
    /\ SerialNew(<<>>)
    /\ PolicyIdle
    /\ TapeIdle
    /\ \E names \in NameLists(MaxFusionInstr) :
          machine_instructions = MachineProgram(names)
    /\ new_instructions = <<>>
    /\ passes = [count |-> 0, input |-> <<>>]

\* line 74: the pass on the list built from the tape
Optimize ==
    /\ passes.count = 0
    /\ new_instructions' = optimize_softmax_and_cross_entropy_loss(machine_instructions)
    /\ passes' = [count |-> 1, input |-> machine_instructions]
    /\ UNCHANGED <<programVars, queueVars, schedulerVars, unitVars, executed,
                   serialVars, boundedVars, machine_instructions, tapeVars>>

\* the pass on the list that the pass returned
OptimizeAgain ==
    /\ passes.count = 1
    /\ new_instructions' = optimize_softmax_and_cross_entropy_loss(new_instructions)
    /\ passes' = [count |-> 2, input |-> new_instructions]
    /\ UNCHANGED <<programVars, queueVars, schedulerVars, unitVars, executed,
                   serialVars, boundedVars, machine_instructions, tapeVars>>

NextFusion ==
    \/ Optimize
    \/ OptimizeAgain

SpecFusion == InitFusion /\ [][NextFusion]_vars

\* ------------------------------------------------------------------------
\* Properties of the compilation
\* ------------------------------------------------------------------------
RECURSIVE ConcatInstructions(_)
ConcatInstructions(ss) ==
    IF ss = <<>> THEN <<>> ELSE Head(ss).instructions \o ConcatInstructions(Tail(ss))

InstructionIndices == 0..(Len(instructions) - 1)

\* the stream that holds instruction i
StreamOf(i) == CHOOSE s \in 0..(Len(streams) - 1) : Contains(At(streams, s).instructions, i)

\* C1: the streams returned by make_streams partition the instruction
\* indices: the concatenation of their instruction lists holds every index
\* 0..n-1 exactly once.
C1_StreamsPartitionInstructions ==
    phase = "ready" =>
        /\ Len(ConcatInstructions(streams)) = Len(instructions)
        /\ Elems(ConcatInstructions(streams)) = InstructionIndices

C1_Witness ==
    /\ phase = "ready"
    /\ Len(streams) >= 2
    /\ \E k \in 1..Len(streams) : Len(streams[k].instructions) >= 2

\* C8 as stated: for the scenario program I0, I1 and I2 are in three
\* different streams and stream(I0) is a dependency of stream(I1) and of
\* stream(I2).
C8_ScenarioThreeStreams ==
    (phase = "ready" /\ instructions = ScenarioProgram) =>
        /\ Len(streams) = 3
        /\ StreamOf(0) # StreamOf(1)
        /\ StreamOf(0) # StreamOf(2)
        /\ StreamOf(1) # StreamOf(2)
        /\ Contains(At(streams, StreamOf(1)).dependencies, StreamOf(0))
        /\ Contains(At(streams, StreamOf(2)).dependencies, StreamOf(0))

\* C8 amended: for the scenario program make_streams returns one stream,
\* stream 0, whose instruction list is I0, I1, I2 and whose dependency list
\* is empty (I1 and I2 each have the single dependency I0 and extend its
\* stream).
C8_ScenarioOneStream ==
    (phase = "ready" /\ instructions = ScenarioProgram) =>
        /\ Len(streams) = 1
        /\ At(streams, 0).id = 0
        /\ At(streams, 0).instructions = <<0, 1, 2>>
        /\ At(streams, 0).dependencies = <<>>

C8_Witness == phase = "ready" /\ instructions = ScenarioProgram

MachineInputWritten ==
    \E i \in InstructionIndices :
        \E o \in Elems(machine_inputs) : o \in Elems(outputs(At(instructions, i)))

\* C9: verify_machine_inputs returns normally exactly when no instruction
\* has a declared machine input in its output list; otherwise it panics,
\* wherever the offending instruction is, and nothing has been built or run.
C9_VerifyMachineInputs ==
    /\ phase \in {"make", "ready"} => ~MachineInputWritten
    /\ phase = "panicked" => (MachineInputWritten /\ streams = <<>> /\ executed = <<>>)

\* a panic caused by the last instruction alone, which is not the first
C9_Witness ==
    /\ phase = "panicked"
    /\ Len(instructions) >= 3
    /\ \A i \in InstructionIndices :
           (\E o \in Elems(machine_inputs) : o \in Elems(outputs(At(instructions, i))))
               <=> i = Len(instructions) - 1

\* ------------------------------------------------------------------------
\* Properties of the queue pipeline
\* ------------------------------------------------------------------------
Reads(i) == Elems(inputs(At(instructions, i)))

Writes(i) == Elems(outputs(At(instructions, i)))

\* i and j access a common operand and one of the two accesses is a write
Conflict(i, j) ==
    \/ Writes(i) \cap (Reads(j) \cup Writes(j)) # {}
    \/ Writes(j) \cap (Reads(i) \cup Writes(i)) # {}

\* the position of instruction i in the execution, 0 when it has not run
PositionOf(i) ==
    IF Contains(executed, i) THEN CHOOSE p \in 1..Len(executed) : executed[p] = i
    ELSE 0

\* the three dependency sets of instruction i, as one set
DependencySet(i) ==
    LET d == Dependencies(instructions, i)
    IN Elems(d.write_before_read) \cup Elems(d.write_before_write)
           \cup Elems(d.read_before_write)

\* C2: two instructions that access a common operand, one of the accesses
\* being a write, execute in the order they have in the flat list.
C2_ConflictsKeepProgramOrder ==
    \A p, q \in 1..Len(executed) :
        (p < q /\ Conflict(executed[p], executed[q])) => executed[p] < executed[q]

\* C3: when instruction i runs, every instruction recorded in one of its
\* three dependency sets has already run.
C3_DependenciesRunFirst ==
    \A p \in 1..Len(executed) :
        \A j \in DependencySet(executed[p]) :
            PositionOf(j) # 0 /\ PositionOf(j) < p

\* an instruction that opens a stream with two dependency streams has run
C3_Witness ==
    \E p \in 1..Len(executed) :
        LET s == StreamOf(executed[p])
        IN /\ At(At(streams, s).instructions, 0) = executed[p]
           /\ Cardinality(Elems(At(streams, s).dependencies)) >= 2

\* the writer of operand o that is nearest before position p of the trace,
\* no_stream when there is none
NearestWriterBefore(trace, p, o) ==
    LET before == {q \in 1..(p - 1) : o \in Writes(trace[q])}
    IN IF before = {} THEN no_stream
       ELSE trace[CHOOSE q \in before : \A r \in before : r <= q]

ProgramOrder == [k \in 1..Len(instructions) |-> k - 1]

\* C5: every write of an operand has, in the execution, the nearest
\* preceding write it has in program order.
C5_WritesKeepProgramOrder ==
    \A p \in 1..Len(executed) :
        \A o \in Writes(executed[p]) :
            NearestWriterBefore(executed, p, o)
                = NearestWriterBefore(ProgramOrder, executed[p] + 1, o)

\* two writes of one operand have run, from two different streams
C5_Witness ==
    \E p, q \in 1..Len(executed) :
        /\ p < q
        /\ Writes(executed[p]) \cap Writes(executed[q]) # {}
        /\ StreamOf(executed[p]) # StreamOf(executed[q])

\* pushed on the dispatch queue and not yet pushed on the completion queue
Active(s) ==
    /\ Contains(dispatched, s)
    /\ ~Contains(completion_queue, s)
    /\ ~Contains(retired, s)

StreamReads(s) == UNION {Reads(i) : i \in Elems(At(streams, s).instructions)}

StreamWrites(s) == UNION {Writes(i) : i \in Elems(At(streams, s).instructions)}

\* C7: of two streams that are active at the same time, neither writes an
\* operand that the other reads or writes.
C7_ActiveStreamsDoNotConflict ==
    \A s, t \in StreamIds :
        (s # t /\ Active(s) /\ Active(t)) =>
            StreamWrites(s) \cap (StreamReads(t) \cup StreamWrites(t)) = {}

StreamExecuted(s) == Elems(At(streams, s).instructions) \subseteq Elems(executed)

\* C10: a stream is on the dispatch queue only after every stream of its
\* dependency list has run all its instructions and the scheduler has popped
\* its completion.
C10_DispatchAfterDependenciesRetired ==
    \A s \in StreamIds :
        Contains(dispatched, s) =>
            \A d \in Elems(At(streams, s).dependencies) :
                StreamExecuted(d) /\ Contains(retired, d)

\* a stream with two dependency streams has been dispatched
C10_Witness ==
    \E s \in StreamIds :
        /\ Contains(dispatched, s)
        /\ Cardinality(Elems(At(streams, s).dependencies)) >= 2

\* ------------------------------------------------------------------------
\* Properties of the serial reference run
\* ------------------------------------------------------------------------
SerialDone == phase = "ready" /\ Cardinality(joined_streams) = Len(streams)

ExpectedPairs(access, prior_access) ==
    get_operand_transaction_pairs(access, prior_access,
                                  get_all_instruction_transactions(instructions))

ActualPairs(access, prior_access) ==
    get_operand_transaction_pairs(access, prior_access,
                                  TransactionsOf(instructions, executed))

\* the comparison of the tests: every operand that has pairs in program order
\* has the same pairs in the executed trace
SamePairs(access, prior_access) ==
    \A o \in DOMAIN ExpectedPairs(access, prior_access) :
        /\ o \in DOMAIN ActualPairs(access, prior_access)
        /\ ActualPairs(access, prior_access)[o] = ExpectedPairs(access, prior_access)[o]

\* C4: after the serial run, every operand that has (read, nearest preceding
\* write) pairs in program order has exactly those pairs in the executed
\* trace.
C4_SerialReadsSeeSameWrite == SerialDone => SamePairs(Read, Write)

Count(v, x) == Cardinality({k \in 1..Len(v) : v[k] = x})

\* C11: a stream id is pushed on the dispatch queue at most once in a run,
\* and no instruction is executed twice.
C11_DispatchedAtMostOnce ==
    /\ \A s \in StreamIds : Count(dispatched, s) <= 1
    /\ \A i \in InstructionIndices : Count(executed, i) <= 1

\* every stream has been dispatched and one of them has two entries in its
\* dependency list
C11_Witness ==
    /\ \A s \in StreamIds : Count(dispatched, s) = 1
    /\ \E s \in StreamIds : Len(At(streams, s).dependencies) >= 2

\* the streams with an empty dependency list, in increasing order
StreamsWithoutDependency ==
    SetToSortedSeq({s \in StreamIds : At(streams, s).dependencies = <<>>})

\* the loop of Scheduler::spawn is over, no completion has been processed
SpawnedNothingCompleted ==
    /\ retired = <<>>
    /\ scheduler.pc # "halted"
    /\ ~(scheduler.pc = "spawn" /\ scheduler.i < Len(streams))

\* C12 as stated: after the loop of Scheduler::spawn and before a completion
\* is processed, the dispatch queue holds exactly the streams with an empty
\* dependency list, each once, in increasing order.
C12_QueueHoldsStreamsWithoutDependency ==
    SpawnedNothingCompleted => dispatch_queue = StreamsWithoutDependency

\* C12 amended: after the loop of Scheduler::spawn and before a completion
\* is processed, the values pushed on the dispatch queue are exactly the
\* streams with an empty dependency list, each once, in increasing order;
\* the queue holds those of them that no execution unit has fetched yet.
C12_PushedStreamsWithoutDependency ==
    SpawnedNothingCompleted =>
        /\ dispatched = StreamsWithoutDependency
        /\ \E k \in 0..Len(dispatched) :
               dispatch_queue = SubSeq(dispatched, k + 1, Len(dispatched))

\* a unit has fetched a stream pushed by Scheduler::spawn, and a stream with
\* a dependency is waiting
C12_Witness ==
    /\ SpawnedNothingCompleted
    /\ Len(dispatched) >= 2
    /\ dispatch_queue # dispatched
    /\ \E s \in StreamIds : At(streams, s).dependencies # <<>>

\* C13: the stop token is pushed at most once, after the scheduler has
\* counted a completion for every stream, nothing is pushed after it, and the
\* scheduler has halted exactly when it has pushed it.
C13_StopPushedOnceAtTheEnd ==
    /\ Count(dispatched, STOP) <= 1
    /\ (scheduler.pc = "halted") <=> Contains(dispatched, STOP)
    /\ Contains(dispatched, STOP) =>
           /\ dispatched[Len(dispatched)] = STOP
           /\ completed_streams = Len(streams)
           /\ Elems(retired) = StreamIds
           /\ Len(retired) = Len(streams)

\* the stop token has been pushed after two streams completed
C13_Witness == Contains(dispatched, STOP) /\ Len(streams) >= 2

\* every instruction of every stream has been executed exactly once
EveryStreamExecutedOnce ==
    /\ \A s \in StreamIds : Count(dispatched, s) = 1 /\ Count(retired, s) = 1
    /\ \A i \in InstructionIndices : Count(executed, i) = 1
    /\ Len(executed) = Len(instructions)

\* the scheduler loop and the loop of the one execution unit have ended
BothLoopsHalted == scheduler.pc = "halted" /\ units[1].pc = "halted"

\* C14: with one scheduler and one execution unit, both kept running, and
\* no operator error, both loops eventually halt, and when they have, every
\* stream has been executed exactly once and both queues are empty.
C14_OneUnitRunCompletes ==
    /\ <>BothLoopsHalted
    /\ [](BothLoopsHalted =>
            /\ EveryStreamExecutedOnce
            /\ dispatch_queue = <<>>
            /\ completion_queue = <<>>)

\* both loops have halted after a run of three streams
C14_Witness == BothLoopsHalted /\ Len(streams) = 3

\* the empty stream list: both loops have halted
C14_WitnessEmpty == BothLoopsHalted /\ streams = <<>>

\* C15: in a run without operator error that can take no further step,
\* every execution unit has popped the stop token and halted.
C15_EveryUnitHalts ==
    ~ENABLED Next => \A u \in Units : units[u].pc = "halted"

\* an execution unit has panicked on an operator error
SomeUnitPanicked == \E u \in Units : units[u].pc = "panicked"

\* no execution unit can take a step
UnitsStopped == \A u \in Units : ~ENABLED (UnitStep(u) \/ UnitLockPoisoned(u))

\* C16: once on_execute has returned an error and the execution units can
\* do nothing more, the scheduler loop has stopped too: it does not go on
\* polling for a completion that never comes.
C16_ErrorStopsTheRun ==
    (SomeUnitPanicked /\ UnitsStopped /\ completion_queue = <<>>)
        => scheduler.pc \notin {"pop", "check"}

\* the bounded policy never panics
BoundedNeverPanics == bounded.pc # "panicked"

\* the state of stream s
StateOf(s) == At(streams, s).state

\* no instruction of stream s has been executed
NotExecuted(s) ==
    \A k \in 1..Len(At(streams, s).instructions) :
        ~Contains(executed, At(streams, s).instructions[k])

\* C17: when the operator of an instruction has returned an error, the
\* bounded policy has returned that error and nothing else has happened:
\* one error only, every stream with a higher id is unreached and
\* unexecuted, and no instruction of the failing stream ran twice.
C17_ErrorReturnedAtOnce ==
    failed # <<>> =>
        /\ Len(failed) = 1
        /\ bounded.pc = "returned"
        /\ result = [kind |-> "Err", error |-> failed[1]]
        /\ ~Contains(executed, failed[1])
        /\ bounded.i = StreamOf(failed[1])
        /\ \A s \in StreamIds : s > bounded.i => StateOf(s) = "Unreached" /\ NotExecuted(s)
        /\ \A i \in InstructionIndices : Count(executed, i) <= 1

\* the second instruction of a stream has failed and a stream with a higher
\* id exists
C17_Witness ==
    /\ failed # <<>>
    /\ ~NotExecuted(StreamOf(failed[1]))
    /\ StreamOf(failed[1]) < Len(streams) - 1

\* C18 as stated: the active set never holds more than
\* max_concurrent_streams streams.
C18_ActiveWithinCap == Cardinality(active_streams) <= max_concurrent_streams

\* C18 amended: when max_concurrent_streams is at least 1, the active set
\* never holds more than max_concurrent_streams streams.
C18_ActiveWithinPositiveCap ==
    max_concurrent_streams >= 1 => Cardinality(active_streams) <= max_concurrent_streams

\* stream r has been joined although no reached stream depends on it and the
\* final loop has not begun: it was joined to make room
JoinedToMakeRoom(r) ==
    /\ StateOf(r) = "Joined"
    /\ bounded.pc \notin {"join", "returned"}
    /\ \A t \in StreamIds :
           StateOf(t) # "Unreached" => ~Contains(At(streams, t).dependencies, r)

\* the active set is full again after a stream was joined to make room
C18_Witness ==
    /\ max_concurrent_streams >= 2
    /\ Cardinality(active_streams) = max_concurrent_streams
    /\ \E r \in StreamIds : JoinedToMakeRoom(r)

\* the position in the execution of the first instruction of stream s
SpawnPosition(s) == PositionOf(At(At(streams, s).instructions, 0))

\* C19: in every step of the bounded policy, a stream that goes from
\* Unreached to Spawned has every stream of its dependency list Joined, and
\* a stream joined at the cap test was, of the active streams, the one
\* spawned first, the active set being full.
C19_SpawnAfterJoins ==
    [][\A s \in StreamIds :
         /\ (StateOf(s) = "Unreached" /\ At(streams', s).state = "Spawned") =>
                \A k \in 1..Len(At(streams, s).dependencies) :
                    StateOf(At(streams, s).dependencies[k]) = "Joined"
         /\ (bounded.pc = "cap" /\ StateOf(s) = "Spawned"
                /\ At(streams', s).state = "Joined") =>
                /\ Cardinality(active_streams) = max_concurrent_streams
                /\ \A t \in active_streams : SpawnPosition(s) <= SpawnPosition(t)
      ]_vars

\* a stream with dependencies is spawned, after another stream was joined to
\* make room in an active set of two
C19_Witness ==
    /\ max_concurrent_streams = 2
    /\ \E s \in active_streams : At(streams, s).dependencies # <<>>
    /\ \E r \in StreamIds : JoinedToMakeRoom(r)

\* the bounded policy that has returned Ok has executed BoundedExecution
BoundedExecutionIsExecuted ==
    (bounded.pc = "returned" /\ result.kind = "Ok") =>
        /\ executed = BoundedExecution(streams)
        /\ \A s \in StreamIds : StateOf(s) = "Joined"

\* the position of instruction i in the execution of the bounded policy
BoundedPosition(i) ==
    CHOOSE p \in 1..Len(BoundedExecution(streams)) : BoundedExecution(streams)[p] = i

\* C20: two conflicting instructions that the queue pipeline has executed
\* were executed in the order in which the bounded policy executes them.
C20_PoliciesOrderConflictsAlike ==
    \A i, j \in InstructionIndices :
        (Conflict(i, j) /\ Contains(executed, i) /\ Contains(executed, j)
            /\ BoundedPosition(i) < BoundedPosition(j))
        => PositionOf(i) < PositionOf(j)

\* the instructions that come before instruction i in the execution of the
\* bounded policy without operator error
BoundedExecutionBefore(i) ==
    SubSeq(BoundedExecution(streams), 1, BoundedPosition(i) - 1)

\* what the bounded policy has executed when it returns, whatever the cap:
\* everything, or everything before the instruction that failed
BoundedTrace ==
    IF failed = <<>> THEN BoundedExecution(streams)
    ELSE BoundedExecutionBefore(failed[1])

\* the final stream states of the run with max_concurrent_streams = 1:
\* the stream before the one being spawned is joined to make room, so at
\* an error every lower stream is Joined and the failing one is Spawned
FinalStateWithCapOne(s) ==
    IF failed = <<>> THEN "Joined"
    ELSE IF s < StreamOf(failed[1]) THEN "Joined"
    ELSE IF s = StreamOf(failed[1]) THEN "Spawned"
    ELSE "Unreached"

\* the run with max_concurrent_streams = 1 ends in FinalStateWithCapOne
CapOneFinalStates ==
    (bounded.pc = "returned" /\ max_concurrent_streams = 1) =>
        \A s \in StreamIds : StateOf(s) = FinalStateWithCapOne(s)

\* C21 as stated: when execute_streams returns, the instructions executed
\* and the state of every stream are those of the run with the cap 1, so
\* they are the same for any two values of the cap.
C21_CapChangesNothing ==
    bounded.pc = "returned" =>
        /\ executed = BoundedTrace
        /\ \A s \in StreamIds : StateOf(s) = FinalStateWithCapOne(s)

\* C21 amended: when execute_streams returns, the instructions executed are
\* the same for every cap, and when it returns Ok every stream is Joined for
\* every cap.
C21_CapChangesNothingOnSuccess ==
    bounded.pc = "returned" =>
        /\ executed = BoundedTrace
        /\ result.kind = "Ok" => \A s \in StreamIds : StateOf(s) = "Joined"
        /\ result.kind = "Ok" <=> failed = <<>>

\* a run of three streams or more has returned Ok with a cap that made it
\* join streams to make room
C21_Witness ==
    /\ bounded.pc = "returned"
    /\ result.kind = "Ok"
    /\ Len(streams) >= 3
    /\ max_concurrent_streams = 2
    /\ \A s \in StreamIds : At(streams, s).dependencies = <<>>

\* C22: the second call of execute_streams, made after reset_streams on the
\* streams of a first call that returned Ok, does not panic, returns Ok
\* when no operator fails, and has then executed the same instructions in
\* the same order as the first call, on the streams of make_streams.
C22_SecondRunRepeatsFirst ==
    first_call.returned =>
        /\ bounded.pc # "panicked"
        /\ [k \in 1..Len(streams) |-> [streams[k] EXCEPT !.state = "Unreached"]]
              = make_streams(instructions)
        /\ bounded.pc = "returned" =>
              /\ result.kind = "Ok" <=> failed = <<>>
              /\ result.kind = "Ok" =>
                    /\ executed = first_call.executed
                    /\ \A s \in StreamIds : StateOf(s) = "Joined"

\* the second call has returned Ok after a run of three streams, one of
\* them with dependencies
C22_Witness ==
    /\ first_call.returned
    /\ bounded.pc = "returned"
    /\ result.kind = "Ok"
    /\ Len(streams) >= 3
    /\ \E s \in StreamIds : At(streams, s).dependencies # <<>>

\* the five instructions of list from position k (from 0) are the pattern
\* CrossEntropyLossBackward, Clip, Clip, SoftmaxBackward, Clip
IsWindow(list, k) ==
    /\ k >= 0
    /\ k + 5 <= Len(list)
    /\ list[k + 1].operator = "CrossEntropyLossBackward"
    /\ list[k + 2].operator = "Clip"
    /\ list[k + 3].operator = "Clip"
    /\ list[k + 4].operator = "SoftmaxBackward"
    /\ list[k + 5].operator = "Clip"

HasWindow(list) == \E k \in 0..Len(list) : IsWindow(list, k)

C24_OthersCopiedInOrder ==
    passes.count = 1 =>
        /\ Len(new_instructions) = Len(machine_instructions)
        /\ \A p \in 1..Len(machine_instructions) :
               IF IsWindow(machine_instructions, p - 4)
               THEN /\ new_instructions[p].operator = "IdentityBackward"
                    /\ new_instructions[p].outputs = machine_instructions[p].outputs
               ELSE new_instructions[p] = machine_instructions[p]
        /\ ~HasWindow(machine_instructions) => new_instructions = machine_instructions

\* the pass has run on a list whose last five instructions are a window,
\* after two other instructions of which one is a SoftmaxBackward
C24_Witness ==
    /\ passes.count = 1
    /\ Len(machine_instructions) = 7
    /\ IsWindow(machine_instructions, 2)
    /\ machine_instructions[2].operator = "SoftmaxBackward"

\* C25: the pass applied to a list that the pass returned returns that list.
C25_FusionIsIdempotent ==
    passes.count = 2 => new_instructions = passes.input

\* the pass has run twice, and the first list had a window
C25_Witness ==
    /\ passes.count = 2
    /\ HasWindow(machine_instructions)
    /\ passes.input # machine_instructions

\* tensor p is an input of tensor c
Consumes(c, p) == Contains(tensors[c].inputs, p)

\* C26: in the tape that get_tape returns, every entry of a tensor comes
\* before every entry of a tensor that consumes it.
C26_ProducersBeforeConsumers ==
    tape_pc = "returned" =>
        \A a, b \in 1..Len(tape) :
            Consumes(tape[b], tape[a]) => a < b

\* in the tape that get_tape returns, every entry of a tensor comes after
\* an entry of each of its inputs that has a forward instruction
SomeProducerEntryBeforeConsumer ==
    (tape_pc = "returned" /\ tensors # <<>>) =>
        \A b \in 1..Len(tape) :
            \A p \in 1..MaxTensors :
                (Consumes(tape[b], p) /\ tensors[p].forward) =>
                    \E a \in 1..(b - 1) : tape[a] = p

\* the instructions before i whose inputs (field 1) or outputs (field 2)
\* contain operand o
PriorWith(i, o, field) ==
    {j \in 0..(i - 1) : Contains(At(instructions, j)[field], o)}

\* the largest of them
LastPriorWith(i, o, field) ==
    CHOOSE j \in PriorWith(i, o, field) : \A k \in PriorWith(i, o, field) : k <= j

\* the set of the largest j < i with o in field, for the operands o of
\* operands that have one
NearestSet(i, operands, field) ==
    {LastPriorWith(i, o, field) : o \in {x \in Elems(operands) : PriorWith(i, x, field) # {}}}

\* the record of instruction i that make_streams has worked with
DependenciesOf(i) == At(get_instruction_dependencies(instructions), i)

\* C27: for every instruction i, as sets, write_before_read is the nearest
\* prior writer of each input, write_before_write the nearest prior writer
\* of each output, read_before_write the nearest prior reader of each
\* output; every list has at most one index per operand, every index is
\* smaller than i, and an operand no earlier instruction touches gives none.
C27_NearestPriorAccess ==
    phase = "ready" =>
        \A i \in InstructionIndices :
            LET d == DependenciesOf(i)
                ins == inputs(At(instructions, i))
                outs == outputs(At(instructions, i))
            IN /\ Elems(d.write_before_read) = NearestSet(i, ins, 2)
               /\ Elems(d.write_before_write) = NearestSet(i, outs, 2)
               /\ Elems(d.read_before_write) = NearestSet(i, outs, 1)
               /\ Len(d.write_before_read) <= Len(ins)
               /\ Len(d.write_before_write) <= Len(outs)
               /\ Len(d.read_before_write) <= Len(outs)
               /\ \A j \in Elems(d.write_before_read) \cup Elems(d.write_before_write)
                           \cup Elems(d.read_before_write) : j < i

\* the third instruction reads two operands whose nearest writers differ
\* and writes an operand that the second instruction reads
C27_Witness ==
    /\ phase = "ready"
    /\ Len(instructions) = 3
    /\ Elems(DependenciesOf(2).write_before_read) = {0, 1}
    /\ Elems(DependenciesOf(2).read_before_write) = {1}
    /\ PriorWith(2, 1, 2) = {0, 1}

\* C28: for an instruction i with an operand o in its inputs and in its
\* outputs, the nearest prior writer of o is in write_before_read and in
\* write_before_write, the nearest prior reader of o is in
\* read_before_write, and i is in none of its three lists.
C28_OperandReadAndWritten ==
    phase = "ready" =>
        \A i \in InstructionIndices :
            LET d == DependenciesOf(i)
            IN \A o \in Reads(i) \cap Writes(i) :
                  /\ PriorWith(i, o, 2) # {} =>
                        /\ Contains(d.write_before_read, LastPriorWith(i, o, 2))
                        /\ Contains(d.write_before_write, LastPriorWith(i, o, 2))
                  /\ PriorWith(i, o, 1) # {} =>
                        Contains(d.read_before_write, LastPriorWith(i, o, 1))
                  /\ ~Contains(d.write_before_read, i)
                  /\ ~Contains(d.write_before_write, i)
                  /\ ~Contains(d.read_before_write, i)

\* the third instruction reads and writes operand 1, which the first wrote
\* and the second read
C28_Witness ==
    /\ phase = "ready"
    /\ Len(instructions) = 3
    /\ 1 \in Reads(2) \cap Writes(2)
    /\ PriorWith(2, 1, 2) = {0}
    /\ PriorWith(2, 1, 1) = {1}

\* the stream of every instruction, as make_streams has worked it out
InstructionStreams ==
    assign_instructions_to_streams(get_instruction_dependencies(instructions))

\* the instructions that open a stream: those whose dependency union does
\* not have exactly one element
OpensStream(i) == Cardinality(DependencySet(i)) # 1

\* C29: an instruction whose dependency union is {j} is in the stream of j,
\* any other instruction is in a new stream, whose id is the number of
\* streams opened before it; the number of streams is the number of
\* instructions whose union does not have exactly one element.
C29_OneDependencyJoinsItsStream ==
    phase = "ready" =>
        /\ \A i \in InstructionIndices :
               IF OpensStream(i)
               THEN At(InstructionStreams, i)
                      = Cardinality({k \in 0..(i - 1) : OpensStream(k)})
               ELSE \A j \in DependencySet(i) :
                      At(InstructionStreams, i) = At(InstructionStreams, j)
        /\ Len(streams) = Cardinality({k \in InstructionIndices : OpensStream(k)})
        /\ \A i \in InstructionIndices :
               Contains(At(streams, At(InstructionStreams, i)).instructions, i)

\* of three instructions, the second joins the stream of the first, and the
\* third, with two dependencies, opens the second stream
C29_Witness ==
    /\ phase = "ready"
    /\ Len(instructions) = 3
    /\ DependencySet(1) = {0}
    /\ DependencySet(2) = {0, 1}
    /\ InstructionStreams = <<0, 0, 1>>

\* C30: the dependency list of every stream holds each stream id at most
\* once, and holds exactly the streams of the instructions of the dependency
\* union of the stream's first instruction.
C30_StreamDependenciesDeduplicated ==
    phase = "ready" =>
        \A s \in StreamIds :
            LET d == At(streams, s).dependencies
                first == At(At(streams, s).instructions, 0)
            IN /\ Elems(d) = {At(InstructionStreams, j) : j \in DependencySet(first)}
               /\ \A x \in Elems(d) : Count(d, x) = 1

\* as sets, the dependency list of every stream is the set of the streams
\* that its first instruction depends on
StreamDependenciesAsSets ==
    phase = "ready" =>
        \A s \in StreamIds :
            Elems(At(streams, s).dependencies)
              = {At(InstructionStreams, j) :
                   j \in DependencySet(At(At(streams, s).instructions, 0))}

\* C31: in every stream, every dependency of an instruction other than the
\* first is an instruction of the same stream that comes earlier in the
\* stream's instruction list.
C31_LaterInstructionsDependInsideStream ==
    phase = "ready" =>
        \A s \in StreamIds :
            LET list == At(streams, s).instructions
            IN \A p \in 2..Len(list) :
                   \A j \in DependencySet(list[p]) :
                       \E q \in 1..(p - 1) : list[q] = j

\* stream 0 holds instructions 0 and 2, with the independent instruction 1
\* in a stream of its own between them
C31_Witness ==
    /\ phase = "ready"
    /\ Len(streams) = 2
    /\ At(streams, 0).instructions = <<0, 2>>
    /\ At(streams, 1).instructions = <<1>>
    /\ DependencySet(2) = {0}

\* the instructions of stream s that have been executed, in execution order
ExecutedOf(s) ==
    LET InStream(i) == Contains(At(streams, s).instructions, i)
    IN SelectSeq(executed, InStream)

\* the streams pushed on the completion queue so far
PushedToCompletion == Elems(retired) \cup Elems(completion_queue)

\* C32: the instruction list of every stream is non-empty and strictly
\* increasing; what has been executed of a stream is always a prefix of
\* its list, a unit inside on_execute has executed the first `next`
\* instructions of its stream as the last `next` executions, and a stream
\* is pushed on the completion queue only when its whole list has been
\* executed.
C32_StreamExecutedInRecordedOrder ==
    /\ \A s \in StreamIds :
           LET list == At(streams, s).instructions
           IN /\ list # <<>>
              /\ \A p \in 1..(Len(list) - 1) : list[p] < list[p + 1]
              /\ Len(ExecutedOf(s)) <= Len(list)
              /\ ExecutedOf(s) = SubSeq(list, 1, Len(ExecutedOf(s)))
              /\ s \in PushedToCompletion => ExecutedOf(s) = list
    /\ \A u \in Units :
           LET list == At(streams, units[u].stream).instructions
           IN /\ units[u].pc = "execute" =>
                    /\ units[u].next <= Len(executed)
                    /\ SubSeq(executed, Len(executed) - units[u].next + 1, Len(executed))
                          = SubSeq(list, 1, units[u].next)
              /\ units[u].pc = "writeback" => ExecutedOf(units[u].stream) = list

\* a stream of two instructions is on the completion queue after the other
\* unit has executed a stream between its fetch and its writeback
C32_Witness ==
    /\ Len(executed) = 3
    /\ \E s \in StreamIds :
           /\ Len(At(streams, s).instructions) = 2
           /\ s \in Elems(completion_queue)
           /\ ExecutedOf(s) = SubSeq(executed, 2, 3)

\* the indices that a per-operand map holds for the operands of a list
Lookup(last, operands) == {last[o] : o \in Elems(operands)} \ {no_stream}

\* the analyzer that walks the list once in program order and keeps, per
\* operand, the index of its last writer and of its last reader: the three
\* dependency sets of the instructions from i on
RECURSIVE MapAnalyzerFrom(_, _, _, _)
MapAnalyzerFrom(instrs, i, last_writer, last_reader) ==
    IF i >= Len(instrs) THEN <<>>
    ELSE LET ins == inputs(At(instrs, i))
             outs == outputs(At(instrs, i))
         IN << [write_before_read  |-> Lookup(last_writer, ins),
                write_before_write |-> Lookup(last_writer, outs),
                read_before_write  |-> Lookup(last_reader, outs)] >>
            \o MapAnalyzerFrom(instrs, i + 1,
                   [o \in Operands |-> IF Contains(outs, o) THEN i ELSE last_writer[o]],
                   [o \in Operands |-> IF Contains(ins, o) THEN i ELSE last_reader[o]])

MapAnalyzer(instrs) ==
    MapAnalyzerFrom(instrs, 0, [o \in Operands |-> no_stream],
                    [o \in Operands |-> no_stream])

\* the three lists of get_instruction_dependencies, as sets
DependencySetsOf(instrs) ==
    LET d == get_instruction_dependencies(instrs)
    IN [k \in 1..Len(instrs) |->
           [write_before_read  |-> Elems(d[k].write_before_read),
            write_before_write |-> Elems(d[k].write_before_write),
            read_before_write  |-> Elems(d[k].read_before_write)]]

\* C33: the analyzer that keeps the last writer and the last reader of each
\* operand returns, for every instruction, the same three dependency sets
\* as the backward scan of get_instruction_dependencies.
C33_MapAnalyzerAgreesWithBackwardScan ==
    phase = "ready" => MapAnalyzer(instructions) = DependencySetsOf(instructions)

\* the third instruction has a writer and a later reader of operand 1
\* before it, and an earlier writer of operand 1 that the maps have
\* overwritten
C33_Witness ==
    /\ phase = "ready"
    /\ Len(instructions) = 3
    /\ 1 \in Writes(0) \cap Writes(1) \cap Reads(1) \cap Writes(2) \cap Reads(2)
    /\ MapAnalyzer(instructions)[3].write_before_write = {1}
    /\ MapAnalyzer(instructions)[3].read_before_write = {1}

\* the bounded policy is about to join a dependency that is still Unreached:
\* the panic of line 368
JoinsUnspawnedStream ==
    /\ bounded.pc = "dependencies"
    /\ bounded.j < Len(At(streams, bounded.i).dependencies)
    /\ At(streams, At(At(streams, bounded.i).dependencies, bounded.j)).state = "Unreached"

\* C34: every stream id in the dependency list of a stream is smaller than
\* the id of the stream, every instruction has a stream when
\* assign_instructions_to_streams returns (looked at when make_streams has
\* just returned: the instruction list does not change afterwards), and the
\* bounded policy never finds a dependency that is still Unreached.
C34_DependenciesPointBackwards ==
    /\ \A s \in StreamIds :
           \A d \in Elems(At(streams, s).dependencies) : 0 <= d /\ d < s
    /\ (bounded.pc = "for" /\ bounded.i = 0) =>
           \A i \in InstructionIndices :
               /\ At(InstructionStreams, i) # no_stream
               /\ \A j \in DependencySet(i) : j < i
    /\ ~JoinsUnspawnedStream

\* stream 2 depends on streams 0 and 1; the policy has found stream 0
\* Joined and is about to join stream 1, which is Spawned
C34_Witness ==
    /\ bounded.pc = "dependencies"
    /\ bounded.i = 2
    /\ bounded.j = 1
    /\ At(streams, 2).dependencies = <<0, 1>>
    /\ At(streams, 0).state = "Joined"
    /\ At(streams, 1).state = "Spawned"

\* every value pushed on the completion queue so far, in the order of the
\* pushes: what the scheduler has popped, then what is still queued
CompletionHistory == retired \o completion_queue

\* C35: no stream id is pushed on the completion queue twice, and
\* completed_streams, which counts the pops, never exceeds the number of
\* streams.
C35_CompletedAtMostOnce ==
    /\ \A s \in StreamIds : Count(CompletionHistory, s) <= 1
    /\ Elems(CompletionHistory) \subseteq StreamIds
    /\ completed_streams = Len(retired)
    /\ completed_streams <= Len(streams)

\* three streams have completed, each once, and the scheduler has counted
\* all of them
C35_Witness ==
    /\ Len(streams) = 3
    /\ completed_streams = 3
    /\ Elems(retired) = {0, 1, 2}
    /\ scheduler.pc = "halted"

\* the units that are inside on_execute
UnitsExecuting == {u \in Units : units[u].pc = "execute"}

\* C36: at most one unit is inside on_execute at any time and it holds the
\* handler mutex, so the instructions of a stream are executed with no
\* instruction of another stream between them.
C36_OnExecuteCallsDoNotOverlap ==
    /\ Cardinality(UnitsExecuting) <= 1
    /\ \A u \in UnitsExecuting : handler_lock = u
    /\ handler_lock # 0 => handler_lock \in UnitsExecuting
    /\ \A p, q \in 1..Len(executed) :
           (p < q /\ StreamOf(executed[p]) = StreamOf(executed[q])) =>
               \A r \in p..q : StreamOf(executed[r]) = StreamOf(executed[p])

\* one unit is in the middle of a stream of two instructions while the
\* other unit has popped another stream and waits for the handler mutex
C36_Witness ==
    \E u, v \in Units :
        /\ units[u].pc = "execute"
        /\ units[u].next = 1
        /\ Len(At(streams, units[u].stream).instructions) = 2
        /\ units[v].pc = "lock"
        /\ units[v].stream # units[u].stream

\* C37: the tape that get_tape returns holds each tensor at most once.
C37_TapeHoldsEachTensorOnce ==
    tape_pc = "returned" => \A t \in 1..MaxTensors : Count(tape, t) <= 1

\* the number of paths from the final tensor to tensor t along inputs that
\* have a forward instruction
RECURSIVE PathsTo(_, _)
PathsTo(from, t) ==
    IF from = t THEN 1
    ELSE IF ~tensors[from].forward \/ tensors[from].inputs = <<>> THEN 0
    ELSE LET ins == tensors[from].inputs
             Sum[k \in 0..Len(ins)] ==
                 IF k = 0 THEN 0 ELSE Sum[k - 1] + PathsTo(ins[k], t)
         IN Sum[Len(ins)]

\* the returned tape holds a tensor that has a forward instruction once per
\* path from the final tensor to it
TapeHoldsTensorOncePerPath ==
    tape_pc = "returned" =>
        \A t \in 1..MaxTensors :
            Count(tape, t) = IF tensors[t].forward THEN PathsTo(MaxTensors, t) ELSE 0

\* the second call of execute_streams has gone past the head of its loop
SecondCallMoved == first_call.returned /\ ~(bounded.pc = "for" /\ bounded.i = 0)

\* C38: a second call of execute_streams on streams that have completed a
\* run and have not been reset panics at the first stream, stream 0, which
\* is not Unreached, and executes nothing.  (An empty stream list has no
\* first stream: the second call then returns Ok and executes nothing.)
C38_SecondCallAbortsWhenThereIsAStream ==
    /\ first_call.returned => executed = <<>>
    /\ (first_call.returned /\ streams # <<>>) => StateOf(0) # "Unreached"
    /\ (SecondCallMoved /\ streams # <<>>) => bounded.pc = "panicked" /\ bounded.i = 0
    /\ (SecondCallMoved /\ streams = <<>>) =>
           \/ bounded.pc = "join" /\ result.kind = "none"
           \/ bounded.pc = "returned" /\ result.kind = "Ok"

\* the second call has panicked at stream 0 after a first call that had
\* executed three instructions in two streams and returned Ok
C38_Witness ==
    /\ first_call.returned
    /\ Len(first_call.executed) = 3
    /\ failed = <<>>
    /\ Len(streams) = 2
    /\ bounded.pc = "panicked"
    /\ bounded.i = 0
    /\ executed = <<>>

\* the second call has panicked after a first call that returned an error
C38_WitnessAfterError ==
    /\ first_call.returned
    /\ failed # <<>>
    /\ bounded.pc = "panicked"

\* the entries of the dependency list of s whose stream has not been popped
\* from the completion queue yet
UnprocessedEntries(s) ==
    Cardinality({k \in 1..Len(At(streams, s).dependencies) :
                    At(streams, s).dependencies[k] \notin Elems(retired)})

\* the entries of s that the loop over the dependents of the stream popped
\* last has not reached yet; none when the scheduler is not inside that loop
EntriesLeftInLoop(s) ==
    IF scheduler.pc # "notify" THEN 0
    ELSE LET dependents == At(Dependents(streams), scheduler.stream)
         IN Cardinality({k \in (scheduler.i + 1)..Len(dependents) : dependents[k] = s})

\* maybe_dispatch has been called for s at least once
DispatchConsidered(s) == scheduler.pc # "spawn" \/ s < scheduler.i

\* C39: pending_dependencies[s] is the number of entries of the dependency
\* list of s, with multiplicity, whose completion the scheduler has not
\* processed (inside the loop over the dependents of a popped stream: not
\* reached yet); it is never negative; and s has been pushed on the
\* dispatch queue, once, exactly when its counter is zero and
\* maybe_dispatch has looked at it.
C39_PendingCountsUnprocessedDependencies ==
    \A s \in StreamIds :
        /\ At(pending_dependencies, s) = UnprocessedEntries(s) + EntriesLeftInLoop(s)
        /\ At(pending_dependencies, s) >= 0
        /\ Count(dispatched, s) <= 1
        /\ Count(dispatched, s) = 1
              <=> (At(pending_dependencies, s) = 0 /\ DispatchConsidered(s))

\* stream 1 lists stream 0 twice; the scheduler has popped stream 0 and has
\* decremented the counter of stream 1 once, with one entry left in the loop
C39_Witness ==
    /\ Len(streams) = 2
    /\ At(streams, 1).dependencies = <<0, 0>>
    /\ scheduler.pc = "notify"
    /\ scheduler.stream = 0
    /\ scheduler.i = 1
    /\ At(pending_dependencies, 1) = 1
    /\ Count(dispatched, 1) = 0

\* the streams in state Spawned
SpawnedStreams == {s \in StreamIds : StateOf(s) = "Spawned"}

\* the active set is the set of the Spawned streams, and after Ok every
\* stream is Joined
ActiveAreTheSpawned ==
    /\ active_streams = SpawnedStreams
    /\ (bounded.pc = "returned" /\ result.kind = "Ok") =>
           /\ active_streams = {}
           /\ \A s \in StreamIds : StateOf(s) = "Joined"

\* a step changes the state of a stream from Unreached to Spawned or from
\* Spawned to Joined, if at all
StreamStatesMoveForward ==
    \A k \in 1..Len(streams) :
        \/ streams'[k].state = streams[k].state
        \/ streams[k].state = "Unreached" /\ streams'[k].state = "Spawned"
        \/ streams[k].state = "Spawned" /\ streams'[k].state = "Joined"

\* C40: in the bounded policy the active set is always the set of the
\* streams in state Spawned, a stream only moves from Unreached to Spawned
\* and from Spawned to Joined, and when execute_streams returns Ok every
\* stream is Joined and the active set is empty.
C40_ActiveSetAndStreamStates ==
    []ActiveAreTheSpawned /\ [][StreamStatesMoveForward]_vars

\* with cap 2, stream 0 has been joined to make room and streams 1 and 2
\* are active
C40_Witness ==
    /\ max_concurrent_streams = 2
    /\ Len(streams) >= 3
    /\ active_streams = {1, 2}
    /\ StateOf(0) = "Joined"
    /\ At(streams, 2).dependencies = <<>>
    /\ bounded.pc = "for"

\* execute_streams has returned Ok on four streams
C40_WitnessOk ==
    /\ bounded.pc = "returned"
    /\ result.kind = "Ok"
    /\ Len(streams) = 4
    /\ \A s \in StreamIds : StateOf(s) = "Joined"

====
